---------------------------- MODULE Spec2Model ----------------------------
(***************************************************************************)
(* Model of the racing / sports repositories (racing/db/races.go and       *)
(* sports/db/events.go): the query builder applyFilter, the order-by       *)
(* validator buildAndValidateOrderByClause, the status derivation          *)
(* calculateEventStatus and the once-guarded Init.                         *)
(*                                                                         *)
(* Go strings are modelled as sequences of one-character strings, so that  *)
(* Split, TrimLeft, TrimRight, ToLower, ReplaceAll, Repeat and Join do     *)
(* what the Go library does on the characters.                             *)
(***************************************************************************)
EXTENDS Integers, Sequences, FiniteSets, TLC

VARIABLES
    repo,           \* the repository the request goes to: "races" or "sports"
    filter,         \* the request filter being filled in by the client (Nil: absent)
    out,            \* what the last applyFilter / buildAndValidateOrderByClause call returned
    done,           \* sync.Once: the done flag of r.init
    mu,             \* sync.Once: the holder of the mutex of r.init (0: free)
    pc,             \* each caller's position inside Init
    calls,          \* each caller's number of Init calls started
    err,            \* each running Init call's local variable err
    seedPhase,      \* the seed routine: "idle", "running" or "finished"
    seedRuns,       \* how many times seed was started
    seedCall,       \* the Init call <<caller, k>> that ran seed (<<>>: none yet)
    seedResult,     \* what seed returned
    returned,       \* the Init calls that have returned, with what they returned
    now,            \* the clock read by time.Now()
    advertisedTime, \* the timestamp handed to calculateEventStatus
    status          \* the last derived status, with the clock value the call read

queryVars == <<repo, filter, out>>
onceVars == <<done, mu, pc, calls, err, seedPhase, seedRuns, seedCall, seedResult, returned>>
statusVars == <<now, advertisedTime, status>>
vars == <<repo, filter, out, done, mu, pc, calls, err, seedPhase, seedRuns, seedCall,
          seedResult, returned, now, advertisedTime, status>>

(***************************************************************************)
(* Values shared by the operations.                                        *)
(***************************************************************************)
Nil == "nil"

invalidOrderByFieldErr == "invalid order by field"

sortOrderDescLower == <<"d","e","s","c">>

(***************************************************************************)
(* The Go strings package, on sequences of characters.                     *)
(***************************************************************************)
UpperChars == <<"A","B","C","D","E","F","G","H","I","J","K","L","M",
                "N","O","P","Q","R","S","T","U","V","W","X","Y","Z">>

LowerChars == <<"a","b","c","d","e","f","g","h","i","j","k","l","m",
                "n","o","p","q","r","s","t","u","v","w","x","y","z">>

IsUpper(c) == \E i \in 1..Len(UpperChars) : UpperChars[i] = c

ToLowerChar(c) ==
    IF IsUpper(c) THEN LowerChars[CHOOSE i \in 1..Len(UpperChars) : UpperChars[i] = c]
    ELSE c

ToLower(s) == [i \in 1..Len(s) |-> ToLowerChar(s[i])]

RECURSIVE ReplaceAll(_, _, _)
\* strings.ReplaceAll(s, old, new) for a one-character old
ReplaceAll(s, old, new) ==
    IF s = <<>> THEN <<>>
    ELSE (IF Head(s) = old THEN new ELSE <<Head(s)>>) \o ReplaceAll(Tail(s), old, new)

RECURSIVE TrimRight(_, _)
TrimRight(s, cutset) ==
    IF s # <<>> /\ s[Len(s)] \in cutset THEN TrimRight(SubSeq(s, 1, Len(s) - 1), cutset)
    ELSE s

RECURSIVE TrimLeft(_, _)
TrimLeft(s, cutset) ==
    IF s # <<>> /\ Head(s) \in cutset THEN TrimLeft(Tail(s), cutset)
    ELSE s

\* strings.Index(s, sep), 1-based; 0 when sep does not occur in s
Index(s, sep) ==
    LET at == {i \in 1..(Len(s) - Len(sep) + 1) : SubSeq(s, i, i + Len(sep) - 1) = sep}
    IN IF at = {} THEN 0 ELSE CHOOSE i \in at : \A j \in at : i <= j

RECURSIVE Split(_, _)
\* strings.Split(s, sep) for a non-empty sep: never an empty slice
Split(s, sep) ==
    LET i == Index(s, sep)
    IN IF i = 0 THEN <<s>>
       ELSE <<SubSeq(s, 1, i - 1)>> \o Split(SubSeq(s, i + Len(sep), Len(s)), sep)

RECURSIVE Repeat(_, _)
Repeat(s, count) == IF count <= 0 THEN <<>> ELSE s \o Repeat(s, count - 1)

RECURSIVE Join(_, _)
Join(elems, sep) ==
    IF elems = <<>> THEN <<>>
    ELSE IF Len(elems) = 1 THEN elems[1]
    ELSE elems[1] \o sep \o Join(Tail(elems), sep)

\* strings.Count(s, c) for a one-character c
Count(s, c) == Cardinality({i \in 1..Len(s) : s[i] = c})


(***************************************************************************)
(* The entities.  reflect.TypeOf(racing.Race{}) and                        *)
(* reflect.TypeOf(sports.Event{}) are the sets of the structs' field       *)
(* names, as the row scanners assign them; the field sets are the same     *)
(* fields under the names requests and queries use for them.               *)
(***************************************************************************)
RaceFields ==
    { <<"I","d">>,
      <<"M","e","e","t","i","n","g","I","d">>,
      <<"N","a","m","e">>,
      <<"N","u","m","b","e","r">>,
      <<"V","i","s","i","b","l","e">>,
      <<"A","d","v","e","r","t","i","s","e","d","S","t","a","r","t","T","i","m","e">> }

EventFields ==
    { <<"I","d">>,
      <<"N","a","m","e">>,
      <<"V","i","s","i","b","l","e">>,
      <<"S","t","a","t","u","s">>,
      <<"A","d","v","e","r","t","i","s","e","d","S","t","a","r","t","T","i","m","e">> }

RaceFieldSet ==
    { <<"i","d">>,
      <<"m","e","e","t","i","n","g","_","i","d">>,
      <<"n","a","m","e">>,
      <<"n","u","m","b","e","r">>,
      <<"v","i","s","i","b","l","e">>,
      <<"a","d","v","e","r","t","i","s","e","d","_","s","t","a","r","t","_","t","i","m","e">> }

EventFieldSet ==
    { <<"i","d">>,
      <<"n","a","m","e">>,
      <<"v","i","s","i","b","l","e">>,
      <<"s","t","a","t","u","s">>,
      <<"a","d","v","e","r","t","i","s","e","d","_","s","t","a","r","t","_","t","i","m","e">> }

Repos == {"races", "sports"}

TypeOf(r) == IF r = "races" THEN RaceFields ELSE EventFields

FieldSet(r) == IF r = "races" THEN RaceFieldSet ELSE EventFieldSet

(***************************************************************************)
(* buildAndValidateOrderByClause.                                          *)
(***************************************************************************)
orderByKeyword == <<" ","O","R","D","E","R"," ","B","Y"," ">>

ascFormat == <<" ","A","S","C">>

descFormat == <<" ","D","E","S","C">>

termSeparator == <<","," ">>

\* fieldMatch comparing case-insensitively on both sides
fieldMatchFold(s, token) == ToLower(s) = ToLower(ReplaceAll(token, "_", <<>>))

\* the match function handed to FieldByNameFunc: s is a struct field name
fieldMatch(s, token) == ToLower(s) = ReplaceAll(token, "_", <<>>)

\* reflect.Type.FieldByNameFunc: found when exactly one field satisfies match
FieldByNameFunc(t, token) == Cardinality({s \in t : fieldMatch(s, token)}) = 1

\* isDesc taking an explicit asc as well
isDescOrAsc(w) == ToLower(w) \in {sortOrderDescLower, <<"a","s","c">>}

\* the second word of a two-word term must be desc
isDesc(w) == ToLower(w) = sortOrderDescLower

\* the words of one comma-separated section
words(field) == Split(TrimLeft(TrimRight(field, {" "}), {" "}), <<" ">>)

\* commaAfter adding the comma after the last term too
commaAfterEvery(i, n) == termSeparator

\* "add comma to clause when we have more terms to add" (i is 1-based here)
commaAfter(i, n) == IF i # n THEN termSeparator ELSE <<>>

orderByFailure == [clause |-> <<>>, err |-> invalidOrderByFieldErr]

RECURSIVE orderByLoop(_, _, _, _)
\* the range loop over orderBySplit, from section i with the clause built so far
orderByLoop(t, orderBySplit, i, orderByClause) ==
    IF i > Len(orderBySplit) THEN [clause |-> orderByClause, err |-> Nil]
    ELSE LET word == words(orderBySplit[i])
         IN CASE Len(word) = 1 ->
                   IF ~FieldByNameFunc(t, word[1]) THEN orderByFailure
                   ELSE orderByLoop(t, orderBySplit, i + 1,
                            orderByClause \o word[1] \o ascFormat
                                \o commaAfter(i, Len(orderBySplit)))
              [] Len(word) = 2 ->
                   IF ~isDesc(word[2]) THEN orderByFailure
                   ELSE IF ~FieldByNameFunc(t, word[1]) THEN orderByFailure
                   ELSE orderByLoop(t, orderBySplit, i + 1,
                            orderByClause \o word[1] \o descFormat
                                \o commaAfter(i, Len(orderBySplit)))
              [] OTHER -> orderByFailure

buildAndValidateOrderByClause(t, orderByFilter) ==
    orderByLoop(t, Split(orderByFilter, <<",">>), 1, orderByKeyword)


(***************************************************************************)
(* applyFilter of the two repositories.                                    *)
(***************************************************************************)
racesList ==
    <<"S","E","L","E","C","T"," ","i","d",","," ","m","e","e","t","i","n","g","_","i","d",","," ","n",
      "a","m","e",","," ","n","u","m","b","e","r",","," ","v","i","s","i","b","l","e",","," ","a","d",
      "v","e","r","t","i","s","e","d","_","s","t","a","r","t","_","t","i","m","e"," ","F","R","O","M",
      " ","r","a","c","e","s">>

eventsList ==
    <<"S","E","L","E","C","T"," ","i","d",","," ","n","a","m","e",","," ","v","i","s","i","b","l","e",
      ","," ","a","d","v","e","r","t","i","s","e","d","_","s","t","a","r","t","_","t","i","m","e"," ",
      "F","R","O","M"," ","e","v","e","n","t","s">>

whereKeyword == <<" ","W","H","E","R","E"," ">>

andKeyword == <<" ","A","N","D"," ">>

visibleClause == <<"v","i","s","i","b","l","e"," ","="," ","?">>

defaultOrderBy ==
    <<" ","O","R","D","E","R"," ","B","Y"," ","a","d","v","e","r","t","i","s","e","d","_","s","t","a",
      "r","t","_","t","i","m","e"," ","D","E","S","C">>

\* a nil *ListRacesRequestFilter / *ListEventsRequestFilter
NilFilter == [isNil |-> TRUE]

\* the arguments are interface{} values: an int64 meeting id or the bool true
Int64(v) == [type |-> "int64", v |-> v]

Bool(b) == [type |-> "bool", b |-> b]

\* meetingIdsClause repeating "?," once too often
meetingIdsClauseOffByOne(n) ==
    <<"m","e","e","t","i","n","g","_","i","d"," ","I","N"," ","(">> \o Repeat(<<"?",",">>, n) \o <<"?",")">>

\* "meeting_id IN (" + strings.Repeat("?,", n-1) + "?)"
meetingIdsClause(n) ==
    <<"m","e","e","t","i","n","g","_","i","d"," ","I","N"," ","(">> \o Repeat(<<"?",",">>, n - 1) \o <<"?",")">>

\* the clauses and args of the races filter, in the order the code appends them
raceClauses(f) ==
    (IF Len(f.MeetingIds) > 0 THEN <<meetingIdsClause(Len(f.MeetingIds))>> ELSE <<>>)
        \o (IF f.VisibleRacesOnly THEN <<visibleClause>> ELSE <<>>)

\* raceArgs appending the visibility argument before the meeting ids
raceArgsVisibleFirst(f) ==
    (IF f.VisibleRacesOnly THEN <<Bool(TRUE)>> ELSE <<>>)
        \o (IF Len(f.MeetingIds) > 0
            THEN [i \in 1..Len(f.MeetingIds) |-> Int64(f.MeetingIds[i])]
            ELSE <<>>)

raceArgs(f) ==
    (IF Len(f.MeetingIds) > 0 THEN [i \in 1..Len(f.MeetingIds) |-> Int64(f.MeetingIds[i])]
     ELSE <<>>)
        \o (IF f.VisibleRacesOnly THEN <<Bool(TRUE)>> ELSE <<>>)

eventClauses(f) == IF f.VisibleEventsOnly THEN <<visibleClause>> ELSE <<>>

eventArgs(f) == IF f.VisibleEventsOnly THEN <<Bool(TRUE)>> ELSE <<>>

\* if len(clauses) != 0 { query += " WHERE " + strings.Join(clauses, " AND ") }
withWhere(query, clauses) ==
    IF Len(clauses) # 0 THEN query \o whereKeyword \o Join(clauses, andKeyword) ELSE query

\* what an applyFilter call records of its call of buildAndValidateOrderByClause
notCalled == [called |-> FALSE]

called(r) == [called |-> TRUE, clause |-> r.clause, err |-> r.err]

\* the branch on filter.OrderBy that ends applyFilter; filtered keeps the
\* locals query and args as the WHERE step left them
withOrderBy(t, query, args, orderByFilter) ==
    IF orderByFilter # <<>>
    THEN LET r == buildAndValidateOrderByClause(t, orderByFilter)
         IN IF r.err # Nil
            THEN [query |-> <<>>, args |-> <<>>, err |-> r.err, orderBy |-> called(r),
                  filtered |-> [query |-> query, args |-> args]]
            ELSE [query |-> query \o r.clause, args |-> args, err |-> Nil,
                  orderBy |-> called(r), filtered |-> [query |-> query, args |-> args]]
    ELSE [query |-> query \o defaultOrderBy, args |-> args, err |-> Nil,
          orderBy |-> notCalled, filtered |-> [query |-> query, args |-> args]]

\* if filter == nil { return query, args, nil }
nilFilterResult(query) ==
    [query |-> query, args |-> <<>>, err |-> Nil, orderBy |-> notCalled,
     filtered |-> [query |-> query, args |-> <<>>]]

racesApplyFilter(query, f) ==
    IF f = NilFilter THEN nilFilterResult(query)
    ELSE withOrderBy(RaceFields, withWhere(query, raceClauses(f)), raceArgs(f), f.OrderBy)

sportsApplyFilter(query, f) ==
    IF f = NilFilter THEN nilFilterResult(query)
    ELSE withOrderBy(EventFields, withWhere(query, eventClauses(f)), eventArgs(f), f.OrderBy)

(***************************************************************************)
(* Requests.  A client fills in a filter (or leaves it absent) and the     *)
(* repository's List runs applyFilter on its list query.                   *)
(***************************************************************************)
MaxTerms == 2

MaxMeetingIds == 2

MeetingIdValues == {7, 8}

\* the comma-separated sections a client may write into order_by
OrderByTerms ==
    { <<"i","d">>,
      <<"n","a","m","e"," ","d","e","s","c">>,
      <<" ","m","e","e","t","i","n","g","_","i","d"," ","D","E","S","C"," ">>,
      <<"n","a","m","e">>,
      <<"i","_","d">>,
      <<"m","e","e","t","i","n","g","_","_","i","d"," ","d","e","s","c">>,
      <<"N","a","m","e">>,
      <<"M","e","e","t","i","n","g","I","d"," ","d","e","s","c">>,
      <<"i","d"," ","a","s","c">>,
      <<"j","u","n","k">>,
      <<" ">>,
      <<"i","d"," ","d","e","s","c"," ","x">> }

NoCall == [returned |-> FALSE]

newRacesFilter == [isNil |-> FALSE, MeetingIds |-> <<>>, VisibleRacesOnly |-> FALSE, OrderBy |-> <<>>]

newEventsFilter == [isNil |-> FALSE, VisibleEventsOnly |-> FALSE, OrderBy |-> <<>>]

\* a returned applyFilter call: the base query it was given and its results
returnedFrom(base, r) ==
    [returned |-> TRUE, base |-> base, query |-> r.query, args |-> r.args,
     err |-> r.err, orderBy |-> r.orderBy, filtered |-> r.filtered]

termCount(orderBy) == IF orderBy = <<>> THEN 0 ELSE Count(orderBy, ",") + 1

QueryInit ==
    /\ repo \in Repos
    /\ filter = NilFilter
    /\ out = NoCall

NewFilter ==
    /\ out = NoCall
    /\ filter = NilFilter
    /\ filter' = IF repo = "races" THEN newRacesFilter ELSE newEventsFilter
    /\ UNCHANGED <<repo, out, onceVars, statusVars>>

AddMeetingId ==
    /\ out = NoCall
    /\ repo = "races"
    /\ filter # NilFilter
    /\ Len(filter.MeetingIds) < MaxMeetingIds
    /\ \E id \in MeetingIdValues :
          filter' = [filter EXCEPT !.MeetingIds = Append(@, id)]
    /\ UNCHANGED <<repo, out, onceVars, statusVars>>

SetVisibleRacesOnly ==
    /\ out = NoCall
    /\ repo = "races"
    /\ filter # NilFilter
    /\ ~filter.VisibleRacesOnly
    /\ filter' = [filter EXCEPT !.VisibleRacesOnly = TRUE]
    /\ UNCHANGED <<repo, out, onceVars, statusVars>>

SetVisibleEventsOnly ==
    /\ out = NoCall
    /\ repo = "sports"
    /\ filter # NilFilter
    /\ ~filter.VisibleEventsOnly
    /\ filter' = [filter EXCEPT !.VisibleEventsOnly = TRUE]
    /\ UNCHANGED <<repo, out, onceVars, statusVars>>

AppendOrderBy ==
    /\ out = NoCall
    /\ filter # NilFilter
    /\ termCount(filter.OrderBy) < MaxTerms
    /\ \E term \in OrderByTerms :
          filter' = [filter EXCEPT !.OrderBy =
                        IF @ = <<>> THEN term ELSE @ \o <<",">> \o term]
    /\ UNCHANGED <<repo, out, onceVars, statusVars>>

RacesList ==
    /\ out = NoCall
    /\ repo = "races"
    /\ out' = returnedFrom(racesList, racesApplyFilter(racesList, filter))
    /\ UNCHANGED <<repo, filter, onceVars, statusVars>>

SportsList ==
    /\ out = NoCall
    /\ repo = "sports"
    /\ out' = returnedFrom(eventsList, sportsApplyFilter(eventsList, filter))
    /\ UNCHANGED <<repo, filter, onceVars, statusVars>>

NextRequest ==
    /\ out # NoCall
    /\ repo' \in Repos
    /\ filter' = NilFilter
    /\ out' = NoCall
    /\ UNCHANGED <<onceVars, statusVars>>

Next ==
    \/ NewFilter
    \/ AddMeetingId
    \/ SetVisibleRacesOnly
    \/ SetVisibleEventsOnly
    \/ AppendOrderBy
    \/ RacesList
    \/ SportsList
    \/ NextRequest

(***************************************************************************)
(* Init of a repository: r.init.Do(func() { err = r.seed() }); return err. *)
(* sync.Once.Do loads done and, while it reads 0, takes the slow path:     *)
(* lock the mutex, read done again, run the function, store done, unlock.  *)
(* Callers are goroutines, each making Init calls one after another.       *)
(***************************************************************************)
NumCallers == 3

MaxCalls == 2

Callers == 1..NumCallers

seedErr == "seed failed"

OnceInit ==
    /\ done = 0
    /\ mu = 0
    /\ pc = [p \in Callers |-> "idle"]
    /\ calls = [p \in Callers |-> 0]
    /\ err = [p \in Callers |-> Nil]
    /\ seedPhase = "idle"
    /\ seedRuns = 0
    /\ seedCall = <<>>
    /\ seedResult = Nil
    /\ returned = {}

\* func (r *racesRepo) Init() error { var err error ...
InitCall(p) ==
    /\ pc[p] = "idle"
    /\ calls[p] < MaxCalls
    /\ calls' = [calls EXCEPT ![p] = @ + 1]
    /\ err' = [err EXCEPT ![p] = Nil]
    /\ pc' = [pc EXCEPT ![p] = "load"]
    /\ UNCHANGED <<done, mu, seedPhase, seedRuns, seedCall, seedResult, returned>>

\* Once.Do: if o.done.Load() == 0 { o.doSlow(f) }
OnceLoad(p) ==
    /\ pc[p] = "load"
    /\ pc' = [pc EXCEPT ![p] = IF done = 0 THEN "lock" ELSE "return"]
    /\ UNCHANGED <<done, mu, calls, err, seedPhase, seedRuns, seedCall, seedResult, returned>>

\* doSlow: o.m.Lock()
OnceLock(p) ==
    /\ pc[p] = "lock"
    /\ mu = 0
    /\ mu' = p
    /\ pc' = [pc EXCEPT ![p] = "check"]
    /\ UNCHANGED <<done, calls, err, seedPhase, seedRuns, seedCall, seedResult, returned>>

\* OnceCheck without the second read of done under the mutex
OnceCheckNoRecheck(p) ==
    /\ pc[p] = "check"
    /\ pc' = [pc EXCEPT ![p] = "seed"]
    /\ UNCHANGED <<done, mu, calls, err, seedPhase, seedRuns, seedCall, seedResult, returned>>

\* doSlow: if o.done.Load() == 0 { defer o.done.Store(1); f() }
OnceCheck(p) ==
    /\ pc[p] = "check"
    /\ pc' = [pc EXCEPT ![p] = IF done = 0 THEN "seed" ELSE "unlock"]
    /\ UNCHANGED <<done, mu, calls, err, seedPhase, seedRuns, seedCall, seedResult, returned>>

\* the function handed to Do starts r.seed()
SeedStart(p) ==
    /\ pc[p] = "seed"
    /\ seedPhase' = "running"
    /\ seedRuns' = seedRuns + 1
    /\ seedCall' = <<p, calls[p]>>
    /\ pc' = [pc EXCEPT ![p] = "seeding"]
    /\ UNCHANGED <<done, mu, calls, err, seedResult, returned>>

\* r.seed() returns, with an error or without; err = r.seed()
SeedFinish(p) ==
    /\ pc[p] = "seeding"
    /\ \E result \in {Nil, seedErr} :
          /\ err' = [err EXCEPT ![p] = result]
          /\ seedResult' = result
    /\ seedPhase' = "finished"
    /\ pc' = [pc EXCEPT ![p] = "store"]
    /\ UNCHANGED <<done, mu, calls, seedRuns, seedCall, returned>>

\* the deferred o.done.Store(1)
OnceStore(p) ==
    /\ pc[p] = "store"
    /\ done' = 1
    /\ pc' = [pc EXCEPT ![p] = "unlock"]
    /\ UNCHANGED <<mu, calls, err, seedPhase, seedRuns, seedCall, seedResult, returned>>

\* the deferred o.m.Unlock()
OnceUnlock(p) ==
    /\ pc[p] = "unlock"
    /\ mu' = 0
    /\ pc' = [pc EXCEPT ![p] = "return"]
    /\ UNCHANGED <<done, calls, err, seedPhase, seedRuns, seedCall, seedResult, returned>>

\* InitReturn with err kept in the repository instead of the call
InitReturnSharedErr(p) ==
    /\ pc[p] = "return"
    /\ returned' = returned \cup {[call |-> <<p, calls[p]>>, err |-> seedResult]}
    /\ pc' = [pc EXCEPT ![p] = "idle"]
    /\ UNCHANGED <<done, mu, calls, err, seedPhase, seedRuns, seedCall, seedResult>>

\* return err
InitReturn(p) ==
    /\ pc[p] = "return"
    /\ returned' = returned \cup {[call |-> <<p, calls[p]>>, err |-> err[p]]}
    /\ pc' = [pc EXCEPT ![p] = "idle"]
    /\ UNCHANGED <<done, mu, calls, err, seedPhase, seedRuns, seedCall, seedResult>>

OnceNext ==
    \/ \E p \in Callers : InitCall(p) /\ UNCHANGED <<queryVars, statusVars>>
    \/ \E p \in Callers : OnceLoad(p) /\ UNCHANGED <<queryVars, statusVars>>
    \/ \E p \in Callers : OnceLock(p) /\ UNCHANGED <<queryVars, statusVars>>
    \/ \E p \in Callers : OnceCheck(p) /\ UNCHANGED <<queryVars, statusVars>>
    \/ \E p \in Callers : SeedStart(p) /\ UNCHANGED <<queryVars, statusVars>>
    \/ \E p \in Callers : SeedFinish(p) /\ UNCHANGED <<queryVars, statusVars>>
    \/ \E p \in Callers : OnceStore(p) /\ UNCHANGED <<queryVars, statusVars>>
    \/ \E p \in Callers : OnceUnlock(p) /\ UNCHANGED <<queryVars, statusVars>>
    \/ \E p \in Callers : InitReturn(p) /\ UNCHANGED <<queryVars, statusVars>>

(***************************************************************************)
(* calculateEventStatus, called by scanEvents on each row's timestamp.     *)
(***************************************************************************)
MaxClock == 5

raceStatusClosed == "CLOSED"

raceStatusOpen == "OPEN"

\* time.Time.After: t is strictly later than u
After(t, u) == t > u

\* clock is what time.Now() returns inside the call
calculateEventStatus(advertised, clock) ==
    IF After(clock, advertised) THEN raceStatusClosed ELSE raceStatusOpen

NoStatus == [derived |-> FALSE]

StatusInit ==
    /\ now = 0
    /\ advertisedTime = 0
    /\ status = NoStatus

\* time passes
Tick ==
    /\ now < MaxClock
    /\ now' = now + 1
    /\ UNCHANGED <<advertisedTime, status, queryVars, onceVars>>

\* rows.Scan reads a row's advertised_start_time
ScanRow ==
    /\ advertisedTime' \in 0..MaxClock
    /\ UNCHANGED <<now, status, queryVars, onceVars>>

\* event.Status = calculateEventStatus(advertisedStart)
DeriveStatus ==
    /\ status' = [derived |-> TRUE, advertised |-> advertisedTime, clock |-> now,
                  value |-> calculateEventStatus(advertisedTime, now)]
    /\ UNCHANGED <<now, advertisedTime, queryVars, onceVars>>

StatusNext ==
    \/ Tick
    \/ ScanRow
    \/ DeriveStatus

(***************************************************************************)
(* The specifications: requests to the query builder, Init calls, and      *)
(* status derivation.                                                      *)
(***************************************************************************)
Init ==
    /\ QueryInit
    /\ OnceInit
    /\ StatusInit

Spec == Init /\ [][Next]_vars

OnceSpec == Init /\ [][OnceNext]_vars

StatusSpec == Init /\ [][StatusNext]_vars

(***************************************************************************)
(* The properties.  They speak of a request and of what the call on it     *)
(* returned, in the words of the specification: sections, tokens, fields.  *)
(***************************************************************************)
Contains(s, substr) == Index(s, substr) # 0

HasSuffix(s, suffix) ==
    /\ Len(s) >= Len(suffix)
    /\ SubSeq(s, Len(s) - Len(suffix) + 1, Len(s)) = suffix

HasPrefix(s, prefix) ==
    /\ Len(s) >= Len(prefix)
    /\ SubSeq(s, 1, Len(prefix)) = prefix

\* the request carried a filter with a non-empty order_by and the call returned
OrderByRequested == out.returned /\ filter # NilFilter /\ filter.OrderBy # <<>>

\* the comma-separated sections of the requested order_by
sections == Split(filter.OrderBy, <<",">>)

\* the space-separated tokens of a section, its surrounding spaces trimmed
tokens(section) == Split(TrimLeft(TrimRight(section, {" "}), {" "}), <<" ">>)

descToken == <<"d","e","s","c">>

\* a term naming a field of the entity, alone or followed by desc in any case
ValidTerm(section) ==
    LET w == tokens(section)
    IN /\ Len(w) \in {1, 2}
       /\ w[1] \in FieldSet(repo)
       /\ Len(w) = 2 => ToLower(w[2]) = descToken

RenderedTerm(section) ==
    LET w == tokens(section)
    IN w[1] \o (IF Len(w) = 1 THEN <<" ","A","S","C">> ELSE <<" ","D","E","S","C">>)

ExpectedClause ==
    <<" ","O","R","D","E","R"," ","B","Y"," ">>
        \o Join([i \in 1..Len(sections) |-> RenderedTerm(sections[i])], <<","," ">>)

\* the token matches a field of the entity when case and underscores are ignored
MatchesField(token) ==
    \E c \in FieldSet(repo) :
        ReplaceAll(ToLower(token), "_", <<>>) = ReplaceAll(c, "_", <<>>)

InvalidTerm(section) ==
    LET w == tokens(section)
    IN \/ Len(w) \notin {1, 2}
       \/ ~MatchesField(w[1])
       \/ Len(w) = 2 /\ ToLower(w[2]) # descToken

HasUpper(token) == \E i \in 1..Len(token) : IsUpper(token[i])

\* the field identifiers of a rendered clause: the first word of each ", " item
ClauseIdentifiers(clause) ==
    LET items == Split(SubSeq(clause, Len(orderByKeyword) + 1, Len(clause)), <<","," ">>)
    IN {Split(items[i], <<" ">>)[1] : i \in 1..Len(items)}

\* what the call appended to the base query it was given
Appended(query) == SubSeq(query, Len(out.base) + 1, Len(query))

\* an IN condition with n placeholders
InCondition(n) ==
    <<"m","e","e","t","i","n","g","_","i","d"," ","I","N"," ","(">> \o Join([i \in 1..n |-> <<"?">>], <<",">>) \o <<")">>

DefaultOrdering ==
    <<" ","O","R","D","E","R"," ","B","Y"," ","a","d","v","e","r","t","i","s","e","d","_","s","t","a","r","t","_","t","i","m","e"," ","D","E","S","C">>

\* C1: every field identifier embedded in an accepted ORDER BY clause is a
\* member of the entity's field set; no other identifier (i_d, meeting__id)
\* gets into it.
C1_OnlyKnownFieldsEmbedded ==
    (OrderByRequested /\ out.orderBy.err = Nil)
        => ClauseIdentifiers(out.orderBy.clause) \subseteq FieldSet(repo)

\* C2: when every term of the order_by is valid, the call returns no error
\* and " ORDER BY " followed by the terms in input order joined by ", ", a
\* one-token term as "<field> ASC" and a "<field> desc" term as "<field> DESC".
C2_ValidTermsRenderedInOrder ==
    (OrderByRequested /\ \A i \in 1..Len(sections) : ValidTerm(sections[i]))
        => /\ out.orderBy = called([clause |-> ExpectedClause, err |-> Nil])
           /\ out.err = Nil

C2_Witness ==
    /\ OrderByRequested
    /\ Len(sections) >= 2
    /\ \A i \in 1..Len(sections) : ValidTerm(sections[i])
    /\ \E i, j \in 1..Len(sections) :
          /\ i < j
          /\ Len(tokens(sections[i])) = 1
          /\ Len(tokens(sections[j])) = 2
          /\ tokens(sections[i])[1] # tokens(sections[j])[1]

C4_UppercaseFieldTokenFails ==
    (OrderByRequested /\ \E i \in 1..Len(sections) : HasUpper(tokens(sections[i])[1]))
        => /\ out.orderBy.called
           /\ out.orderBy.err # Nil
           /\ out.orderBy.clause = <<>>

C4_Witness ==
    /\ OrderByRequested
    /\ \A i \in 1..Len(sections) :
          /\ Len(tokens(sections[i])) \in {1, 2}
          /\ ToLower(tokens(sections[i])[1]) \in FieldSet(repo)
          /\ Len(tokens(sections[i])) = 2 => ToLower(tokens(sections[i])[2]) = descToken
    /\ \E i \in 1..Len(sections) : HasUpper(tokens(sections[i])[1])
    /\ out.err # Nil

\* C5: whenever the request carries no non-empty order_by (the filter absent
\* or its order_by empty), the returned query ends with the default ordering
\* " ORDER BY advertised_start_time DESC", after the WHERE fragment.
C5_DefaultOrderingWithoutOrderBy ==
    (out.returned /\ (filter = NilFilter \/ filter.OrderBy = <<>>))
        => /\ HasSuffix(out.query, DefaultOrdering)
           /\ out.query = out.filtered.query \o DefaultOrdering

\* C6: a races filter with N meeting ids yields one "meeting_id IN (...)"
\* condition with exactly N placeholders and those N ids as args in input
\* order; with N = 0 no IN condition; with no condition no WHERE and no args.
C6_MeetingIdPlaceholders ==
    (out.returned /\ repo = "races")
        => LET ids == IF filter = NilFilter THEN <<>> ELSE filter.MeetingIds
               visible == filter # NilFilter /\ filter.VisibleRacesOnly
               n == Len(ids)
               where == Appended(out.filtered.query)
               args == out.filtered.args
           IN /\ n > 0 =>
                   /\ Contains(where, <<" ">> \o InCondition(n))
                   /\ Count(where, "(") = 1
                   /\ Count(where, "?") = n + (IF visible THEN 1 ELSE 0)
                   /\ Len(args) >= n
                   /\ \A i \in 1..n : args[i] = Int64(ids[i])
              /\ n = 0 => ~Contains(where, <<"I","N">>)
              /\ (n = 0 /\ ~visible) =>
                   /\ ~Contains(out.filtered.query, <<"W","H","E","R","E">>)
                   /\ args = <<>>
              /\ out.err = Nil =>
                   /\ HasPrefix(out.query, out.filtered.query)
                   /\ out.args = args

C6_Witness ==
    /\ out.returned
    /\ repo = "races"
    /\ filter # NilFilter
    /\ Len(filter.MeetingIds) >= 2
    /\ filter.MeetingIds[1] # filter.MeetingIds[2]
    /\ out.err = Nil
    /\ Len(out.args) >= 2

\* C7: a timestamp strictly later than the current time is OPEN; one equal
\* to or earlier than the current time is CLOSED.
C7_StatusByTimestamp ==
    status.derived
        => /\ status.advertised > status.clock => status.value = "OPEN"
           /\ status.advertised <= status.clock => status.value = "CLOSED"

\* C8: under any interleaving of Init calls, seed runs exactly once, never
\* concurrently with itself, and no Init call returns before it has finished.
C8_SeedOnceBeforeAnyReturn ==
    /\ seedRuns <= 1
    /\ Cardinality({p \in Callers : pc[p] = "seeding"}) <= 1
    /\ (returned # {} \/ \E p \in Callers : pc[p] = "return")
          => seedRuns = 1 /\ seedPhase = "finished"

C8_Witness ==
    /\ seedRuns = 1
    /\ \E r1, r2 \in returned : r1.call[1] # r2.call[1]
    /\ \E r \in returned : r.call[2] >= 2

\* C10: when seed fails, only the Init call that ran seed returns the error;
\* every other Init call returns nil, and seed is not attempted again.
C10_OnlySeedingCallReturnsError ==
    /\ \A r \in returned :
          /\ r.call = seedCall => r.err = seedResult
          /\ r.call # seedCall => r.err = Nil
    /\ seedResult = seedErr => seedRuns = 1

C10_Witness ==
    /\ seedResult = seedErr
    /\ \E r1, r2, r3 \in returned :
          /\ r1.call = seedCall /\ r1.err = seedErr
          /\ r2.call[1] # seedCall[1] /\ r2.err = Nil
          /\ r3.call[1] = seedCall[1] /\ r3.call # seedCall /\ r3.err = Nil

\* C9: after a successful applyFilter the placeholders it added are as many
\* as the returned args and in their order: the meeting-id condition first,
\* then visibility, joined by " AND "; the args are the meeting ids in input
\* order followed by true; the order-by fragment adds no placeholder.
C9_PlaceholdersMatchArgs ==
    (out.returned /\ out.err = Nil)
        => LET added == Appended(out.query)
               ids == IF repo = "races" /\ filter # NilFilter
                      THEN filter.MeetingIds ELSE <<>>
               visible == /\ filter # NilFilter
                          /\ IF repo = "races" THEN filter.VisibleRacesOnly
                             ELSE filter.VisibleEventsOnly
               conditions ==
                   (IF Len(ids) > 0 THEN <<InCondition(Len(ids))>> ELSE <<>>)
                       \o (IF visible THEN <<<<"v","i","s","i","b","l","e"," ","="," ","?">>>> ELSE <<>>)
               ordering == SubSeq(out.query, Len(out.filtered.query) + 1, Len(out.query))
           IN /\ HasPrefix(out.query, out.base)
              /\ Count(added, "?") = Len(out.args)
              /\ out.args = [i \in 1..Len(ids) |-> Int64(ids[i])]
                                \o (IF visible THEN <<Bool(TRUE)>> ELSE <<>>)
              /\ conditions # <<>> =>
                   HasPrefix(added, <<" ","W","H","E","R","E"," ">> \o Join(conditions, <<" ","A","N","D"," ">>))
              /\ Count(ordering, "?") = 0

C9_Witness ==
    /\ out.returned
    /\ out.err = Nil
    /\ repo = "races"
    /\ filter # NilFilter
    /\ Len(filter.MeetingIds) >= 2
    /\ filter.MeetingIds[1] # filter.MeetingIds[2]
    /\ filter.VisibleRacesOnly
    /\ out.orderBy.called

=============================================================================
